---- MODULE Spec2Model ----
(***************************************************************************)
(* The service worker of ts-snippets (sw.js): the versioned cache          *)
(* namespace, the three caching strategies behind the fetch listener, the  *)
(* activate sweep and the CACHE_URLS command of the message listener.      *)
(*                                                                         *)
(* Every await and every promise callback of the source is one step of the *)
(* model; the platform (network, cache storage) resolves or rejects the    *)
(* operations the worker has issued.                                       *)
(***************************************************************************)
EXTENDS Integers, Sequences, FiniteSets, TLC

(***************************************************************************)
(* Bounds of the model                                                     *)
(***************************************************************************)
\* Number of fetch events dispatched to the worker.
MaxFetchEvents == 2
\* Number of message events dispatched to the worker.
MaxMessages == 2
\* Number of distinct response bodies the network can serve.
MaxBodies == 2

FetchIds == 1..MaxFetchEvents
MsgIds == 1..MaxMessages
Bodies == {ToString(i) : i \in 1..MaxBodies}

(***************************************************************************)
(* Constants of the worker                                                 *)
(***************************************************************************)
CACHE_VERSION == "v1.0.0"
CACHE_NAME == "ts-snippets-" \o CACHE_VERSION

CACHE_STRATEGIES ==
    [CACHE_FIRST |-> "cache-first",
     NETWORK_FIRST |-> "network-first",
     STALE_WHILE_REVALIDATE |-> "stale-while-revalidate"]

RESOURCE_STRATEGIES ==
    [html |-> CACHE_STRATEGIES.NETWORK_FIRST,
     styles |-> CACHE_STRATEGIES.STALE_WHILE_REVALIDATE,
     scripts |-> CACHE_STRATEGIES.STALE_WHILE_REVALIDATE,
     images |-> CACHE_STRATEGIES.CACHE_FIRST]

\* Namespaces left in the cache storage by earlier versions of the worker.
StaleNames == {"ts-snippets-v0.9.0", "ts-snippets-v0.8.0"}
\* OpenName naming the namespace of an earlier version.
OpenNameStale == "ts-snippets-v0.9.0"

\* The argument of every caches.open of the executors and of the CACHE_URLS
\* handler: the constant CACHE_NAME.
OpenName == CACHE_NAME

Names == StaleNames \cup {CACHE_NAME}

\* location.origin of the worker, and a foreign origin.
LocationOrigin == "https://snippets.example"
ForeignOrigin == "https://cdn.example"
Origins == {LocationOrigin, ForeignOrigin}

(***************************************************************************)
(* Requests and responses                                                  *)
(***************************************************************************)
\* url.pathname, as its sequence of characters.
PathJs == <<"/", "a", ".", "j", "s">>
PathPng == <<"/", "l", ".", "p", "n", "g">>
PathHtml == <<"/", "i", ".", "h", "t", "m", "l">>
\* Further pathnames, of every class getStrategyForRequest tells apart: each
\* extension it names, no extension, an unknown one, several dots, a dot in a
\* directory name, an empty extension, upper case.
ClassifyPaths ==
    {<<"/", "s", ".", "c", "s", "s">>,
     <<"/", "p", ".", "j", "p", "g">>,
     <<"/", "p", ".", "j", "p", "e", "g">>,
     <<"/", "p", ".", "g", "i", "f">>,
     <<"/", "p", ".", "w", "e", "b", "p">>,
     <<"/", "p", ".", "s", "v", "g">>,
     <<"/", "d">>,
     <<"/">>,
     <<"/", "x", ".", "j", "s", "o", "n">>,
     <<"/", "a", ".", "c", "s", "s", ".", "h", "t", "m", "l">>,
     <<"/", "h", ".", "h", "t", "m", "l", ".", "j", "s">>,
     <<"/", "v", ".", "1", "/", "a", "p", "p">>,
     <<"/", "a", ".">>,
     <<"/", "A", ".", "J", "S">>,
     <<"/", "m", ".", "j", "s", "/", "f">>}

Paths == {PathJs, PathPng, PathHtml} \cup ClassifyPaths

\* The Accept header: absent, or a list of media ranges.
NoAccept == [present |-> FALSE, value |-> << >>]
AcceptHtml == [present |-> TRUE, value |-> <<"text/html", "*/*">>]
AcceptAny == [present |-> TRUE, value |-> <<"*/*">>]
AcceptXhtml == [present |-> TRUE, value |-> <<"application/xhtml+xml", "image/png">>]
Accepts == {NoAccept, AcceptHtml, AcceptAny, AcceptXhtml}

\* The requests getStrategyForRequest is applied to.
ClassifyRequests == [origin : {LocationOrigin}, pathname : Paths, accept : Accepts]

\* The requests of the fetch events: same-origin ones of every strategy, and a
\* cross-origin one.
Requests ==
    [origin : {LocationOrigin}, pathname : {PathJs, PathPng}, accept : {NoAccept, AcceptHtml}]
    \cup {[origin |-> ForeignOrigin, pathname |-> PathPng, accept |-> NoAccept]}

\* A response (or what stands where a response is expected).
Resp(status, body, ctype) ==
    [kind |-> "response", status |-> status, body |-> body, ctype |-> ctype]
\* No value: cache.match found nothing, or no response has been produced yet.
None == [kind |-> "none", status |-> 0, body |-> "", ctype |-> ""]
\* The value undefined, as a promise callback without a return yields it.
Undefined == [kind |-> "undefined", status |-> 0, body |-> "", ctype |-> ""]
\* A rejection: fetch() failed (offline, DNS, timeout).
NetError == [kind |-> "error", status |-> 0, body |-> "", ctype |-> ""]
\* The rejection of the promise given to respondWith.
Rejected == [kind |-> "rejected", status |-> 0, body |-> "", ctype |-> ""]

OfflineBody == "Offline - resource not available"

\* What the network can answer to one fetch.
NetOk(b) == Resp(200, b, "asset")
NetNotFound == Resp(404, "Not Found", "asset")
NetOutcomes == {NetOk(b) : b \in Bodies} \cup {NetNotFound, NetError}

\* Response.ok
Ok(r) == r.kind = "response" /\ r.status >= 200 /\ r.status <= 299

\* A response object is truthy, null/undefined are not.
Truthy(r) == r.kind = "response"

(***************************************************************************)
(* getStrategyForRequest                                                   *)
(***************************************************************************)
\* String.prototype.split('.') on a sequence of characters.
RECURSIVE SplitFrom(_, _, _)
SplitFrom(s, i, cur) ==
    IF i > Len(s) THEN <<cur>>
    ELSE IF s[i] = "." THEN <<cur>> \o SplitFrom(s, i + 1, << >>)
    ELSE SplitFrom(s, i + 1, Append(cur, s[i]))

Split(s) == SplitFrom(s, 1, << >>)

\* Array.prototype.pop on the result of split: its last element.
Extension(pathname) == LET parts == Split(pathname) IN parts[Len(parts)]

\* request.headers.get('accept')?.includes('text/html')
AcceptsHtml(accept) ==
    accept.present /\ \E i \in 1..Len(accept.value) : accept.value[i] = "text/html"

ImageExtensions ==
    {<<"j", "p", "g">>, <<"j", "p", "e", "g">>, <<"p", "n", "g">>,
     <<"g", "i", "f">>, <<"w", "e", "b", "p">>, <<"s", "v", "g">>}

\* getStrategyForRequest that looks at the extension before the Accept header.
getStrategyExtensionFirst(request) ==
    LET extension == Extension(request.pathname) IN
    IF extension = <<"c", "s", "s">> THEN RESOURCE_STRATEGIES.styles
    ELSE IF extension = <<"j", "s">> THEN RESOURCE_STRATEGIES.scripts
    ELSE IF extension \in ImageExtensions THEN RESOURCE_STRATEGIES.images
    ELSE IF AcceptsHtml(request.accept) \/ extension = <<"h", "t", "m", "l">>
        THEN RESOURCE_STRATEGIES.html
    ELSE CACHE_STRATEGIES.NETWORK_FIRST

getStrategyForRequest(request) ==
    LET extension == Extension(request.pathname) IN
    IF AcceptsHtml(request.accept) \/ extension = <<"h", "t", "m", "l">>
        THEN RESOURCE_STRATEGIES.html
    ELSE IF extension = <<"c", "s", "s">> THEN RESOURCE_STRATEGIES.styles
    ELSE IF extension = <<"j", "s">> THEN RESOURCE_STRATEGIES.scripts
    ELSE IF extension \in ImageExtensions THEN RESOURCE_STRATEGIES.images
    ELSE CACHE_STRATEGIES.NETWORK_FIRST

(***************************************************************************)
(* State                                                                   *)
(***************************************************************************)
VARIABLES
    caches,     \* the cache storage: per name, whether it exists and its entries
    fh,         \* per fetch event: the state of its handler
    act,        \* the activate handler
    msg         \* per message event: the state of its handler

vars == <<caches, fh, act, msg>>

EmptyEntries == [k \in Paths |-> None]
AbsentCache == [exists |-> FALSE, entries |-> EmptyEntries]
EmptyCache == [exists |-> TRUE, entries |-> EmptyEntries]

\* The key of a cache entry: the URL of the (same-origin, GET) request.
Key(request) == request.pathname

IdleFetch ==
    [pc |-> "idle",
     request |-> [origin |-> LocationOrigin, pathname |-> PathJs, accept |-> NoAccept],
     strategy |-> "",
     executor |-> "",            \* the function handleRequest called
     opens |-> 0,                \* calls of caches.open
     cachedResponse |-> None,
     networkResponse |-> None,
     response |-> None,          \* what the promise given to respondWith settled to
     respondWith |-> 0,          \* calls of event.respondWith
     netCalls |-> 0,             \* calls of fetch()
     reads |-> 0,                \* calls of cache.match
     put |-> "none",             \* the cache.put of this handler
     fetchOrder |-> 0,           \* the rank of its fetch among the fetches settled
     putOrder |-> 0,             \* the rank of its put among the puts completed
     before |-> None]            \* the entry of the key when the event arrived

(***************************************************************************)
(* The fetch listener and the three strategies                             *)
(***************************************************************************)
CurrentEntry(key) == caches[OpenName].entries[key]

\* new Response('Offline - resource not available', {status: 503, ...})
OfflineResponse(ctype) == Resp(503, OfflineBody, ctype)

\* HandlesRequest without the origin check.
HandlesAnyOrigin(request) == TRUE

\* url.origin !== location.origin makes the listener return at once.
HandlesRequest(request) == request.origin = LocationOrigin

\* PutFor without the cache.put.
PutForNever(networkResponse) == "none"

\* PutFor without the test of networkResponse.ok.
PutForAlways(networkResponse) == "pending"

\* if (networkResponse.ok) cache.put(request, networkResponse.clone())
PutFor(networkResponse) == IF Ok(networkResponse) THEN "pending" ELSE "none"

\* SwrResult that always waits for the network: return fetchPromise.
SwrResultNetwork(cachedResponse, fetched) == fetched

\* return cachedResponse || fetchPromise
SwrResult(cachedResponse, fetched) ==
    IF Truthy(cachedResponse) THEN cachedResponse ELSE fetched

\* handleRequest: the executor of the strategy is called and issues caches.open;
\* the default branch calls fetch(request) directly.
handleRequest(f) ==
    CASE f.strategy = CACHE_STRATEGIES.CACHE_FIRST ->
            [f EXCEPT !.executor = "cacheFirst", !.pc = "open", !.opens = @ + 1]
      [] f.strategy = CACHE_STRATEGIES.NETWORK_FIRST ->
            [f EXCEPT !.executor = "networkFirst", !.pc = "open", !.opens = @ + 1]
      [] f.strategy = CACHE_STRATEGIES.STALE_WHILE_REVALIDATE ->
            [f EXCEPT !.executor = "staleWhileRevalidate", !.pc = "open", !.opens = @ + 1]
      [] OTHER ->
            [f EXCEPT !.executor = "fetch", !.pc = "fetch", !.netCalls = @ + 1]

\* The fetch listener, up to the call of the executor.
FetchEvent(h, request) ==
    /\ fh[h].pc = "idle"
    /\ \A g \in FetchIds : g < h => fh[g].pc # "idle"
    /\ IF ~HandlesRequest(request)
          THEN fh' = [fh EXCEPT ![h] = [@ EXCEPT !.pc = "passthrough",
                                                 !.request = request]]
          ELSE fh' = [fh EXCEPT ![h] =
                        handleRequest([@ EXCEPT
                            !.request = request,
                            !.strategy = getStrategyForRequest(request),
                            !.respondWith = @ + 1,
                            !.before = IF caches[OpenName].exists
                                         THEN CurrentEntry(Key(request)) ELSE None])]
    /\ UNCHANGED <<caches, act, msg>>

\* caches.open(CACHE_NAME) resolves: the namespace exists from now on. cacheFirst
\* and staleWhileRevalidate go on to cache.match, networkFirst to fetch.
OpenResolve(h) ==
    /\ fh[h].pc = "open"
    /\ caches' = [caches EXCEPT ![OpenName].exists = TRUE]
    /\ fh' = [fh EXCEPT ![h] =
                IF @.executor = "networkFirst"
                    THEN [@ EXCEPT !.pc = "fetch", !.netCalls = @ + 1]
                    ELSE [@ EXCEPT !.pc = "match", !.reads = @ + 1]]
    /\ UNCHANGED <<act, msg>>

\* CacheFirstMatched that goes to the network even on a hit.
CacheFirstMatchedRevalidating(f, entry) ==
    [f EXCEPT !.cachedResponse = entry, !.pc = "fetch", !.netCalls = @ + 1]

\* cacheFirst after cache.match resolved.
CacheFirstMatched(f, entry) ==
    IF Truthy(entry)
        THEN [f EXCEPT !.cachedResponse = entry, !.response = entry, !.pc = "done"]
        ELSE [f EXCEPT !.cachedResponse = entry, !.pc = "fetch", !.netCalls = @ + 1]

\* StaleWhileRevalidateMatched that starts the fetch only when nothing is cached.
StaleWhileRevalidateMatchedLazy(f, entry) ==
    IF Truthy(entry)
        THEN [f EXCEPT !.cachedResponse = entry, !.response = entry, !.pc = "done"]
        ELSE [f EXCEPT !.cachedResponse = entry, !.pc = "fetch", !.netCalls = @ + 1]

\* staleWhileRevalidate after cache.match resolved: the fetch is started and the
\* function returns cachedResponse || fetchPromise.
StaleWhileRevalidateMatched(f, entry) ==
    [f EXCEPT !.cachedResponse = entry, !.pc = "fetch", !.netCalls = @ + 1,
              !.response = SwrResult(entry, None)]

MatchResolve(h) ==
    /\ fh[h].pc = "match"
    /\ fh' = [fh EXCEPT ![h] =
                IF @.executor = "cacheFirst"
                    THEN CacheFirstMatched(@, CurrentEntry(Key(@.request)))
                    ELSE StaleWhileRevalidateMatched(@, CurrentEntry(Key(@.request)))]
    /\ UNCHANGED <<caches, act, msg>>

\* CacheFirstFetched that awaits cache.put before returning: the response is
\* not handed over when the put is issued.
CacheFirstFetchedAwaiting(f, out) ==
    IF out = NetError
        THEN [f EXCEPT !.networkResponse = out, !.response = OfflineResponse(""),
                       !.pc = "done"]
        ELSE [f EXCEPT !.networkResponse = out, !.put = PutFor(out),
                       !.response = IF Ok(out) THEN None ELSE out, !.pc = "done"]

\* cacheFirst after fetch settled.
CacheFirstFetched(f, out) ==
    IF out = NetError
        THEN [f EXCEPT !.networkResponse = out, !.response = OfflineResponse(""),
                       !.pc = "done"]
        ELSE [f EXCEPT !.networkResponse = out, !.put = PutFor(out),
                       !.response = out, !.pc = "done"]

\* NetworkFirstFetched that looks into the cache whatever the fetch gave.
NetworkFirstFetchedCacheToo(f, out) ==
    [f EXCEPT !.networkResponse = out, !.put = PutFor(out),
              !.pc = "fallback", !.reads = @ + 1]

\* networkFirst after fetch settled: on a rejection cache.match is issued.
NetworkFirstFetched(f, out) ==
    IF out = NetError
        THEN [f EXCEPT !.networkResponse = out, !.pc = "fallback", !.reads = @ + 1]
        ELSE [f EXCEPT !.networkResponse = out, !.put = PutFor(out),
                       !.response = out, !.pc = "done"]

\* staleWhileRevalidate after fetch settled: the .then callback yields the
\* network response, the .catch callback logs and yields undefined.
StaleWhileRevalidateFetched(f, out) ==
    IF out = NetError
        THEN [f EXCEPT !.networkResponse = out,
                       !.response = SwrResult(f.cachedResponse, Undefined),
                       !.pc = "done"]
        ELSE [f EXCEPT !.networkResponse = out, !.put = PutFor(out),
                       !.response = SwrResult(f.cachedResponse, out),
                       !.pc = "done"]

\* The default branch of handleRequest: return fetch(request).
PassThroughFetched(f, out) ==
    [f EXCEPT !.networkResponse = out,
              !.response = IF out = NetError THEN Rejected ELSE out,
              !.pc = "done"]

FetchSettle(h, out) ==
    /\ fh[h].pc = "fetch"
    /\ LET settled ==
            CASE fh[h].executor = "cacheFirst" -> CacheFirstFetched(fh[h], out)
              [] fh[h].executor = "networkFirst" -> NetworkFirstFetched(fh[h], out)
              [] fh[h].executor = "staleWhileRevalidate" ->
                    StaleWhileRevalidateFetched(fh[h], out)
              [] OTHER -> PassThroughFetched(fh[h], out)
       IN fh' = [fh EXCEPT ![h] =
                    [settled EXCEPT !.fetchOrder =
                        1 + Cardinality({g \in FetchIds : fh[g].fetchOrder > 0})]]
    /\ UNCHANGED <<caches, act, msg>>

\* NetworkFirstFallback whose offline response carries no Content-Type.
NetworkFirstFallbackPlain(f, entry) ==
    [f EXCEPT !.cachedResponse = entry,
              !.response = IF Truthy(entry) THEN entry ELSE OfflineResponse(""),
              !.pc = "done"]

\* networkFirst, in the catch block, after cache.match resolved.
NetworkFirstFallback(f, entry) ==
    [f EXCEPT !.cachedResponse = entry,
              !.response = IF Truthy(entry) THEN entry ELSE OfflineResponse("text/html"),
              !.pc = "done"]

FallbackResolve(h) ==
    /\ fh[h].pc = "fallback"
    /\ fh' = [fh EXCEPT ![h] = NetworkFirstFallback(@, CurrentEntry(Key(@.request)))]
    /\ UNCHANGED <<caches, act, msg>>

\* PutCommit that adds the snapshot only where the key has no entry yet.
PutCommitKeepFirst(h) ==
    /\ fh[h].put = "pending"
    /\ caches' = [caches EXCEPT
                    ![OpenName].entries[Key(fh[h].request)] =
                        IF Truthy(@) THEN @ ELSE fh[h].networkResponse]
    /\ fh' = [fh EXCEPT ![h].put = "committed",
                        ![h].putOrder = 1 + Cardinality({g \in FetchIds : fh[g].putOrder > 0})]
    /\ UNCHANGED <<act, msg>>

\* The cache.put a handler issued (and did not await) takes effect: the entry
\* of the key is replaced by the snapshot.
PutCommit(h) ==
    /\ fh[h].put = "pending"
    /\ caches' = [caches EXCEPT
                    ![OpenName].entries[Key(fh[h].request)] = fh[h].networkResponse]
    /\ fh' = [fh EXCEPT ![h].put = "committed",
                        ![h].putOrder = 1 + Cardinality({g \in FetchIds : fh[g].putOrder > 0})]
    /\ UNCHANGED <<act, msg>>

\* The cache.put rejects (quota exceeded, store unavailable); nobody handles it.
PutReject(h) ==
    /\ fh[h].put = "pending"
    /\ fh' = [fh EXCEPT ![h].put = "failed"]
    /\ UNCHANGED <<caches, act, msg>>

NextFetchOf(ids) ==
    \/ \E h \in ids, request \in Requests : FetchEvent(h, request)
    \/ \E h \in ids : OpenResolve(h)
    \/ \E h \in ids : MatchResolve(h)
    \/ \E h \in ids, out \in NetOutcomes : FetchSettle(h, out)
    \/ \E h \in ids : FallbackResolve(h)
    \/ \E h \in ids : PutCommit(h)
    \/ \E h \in ids : PutReject(h)

NextFetch == NextFetchOf(FetchIds)

(***************************************************************************)
(* The activate listener                                                   *)
(***************************************************************************)
IdleActivate ==
    [pc |-> "idle",
     startNames |-> {},                    \* the namespaces when the event arrived
     inFlight |-> {},                      \* the handlers under way when it arrived
     cacheNames |-> {},                    \* what caches.keys() resolved to
     deletes |-> [n \in Names |-> "none"], \* the caches.delete of each name
     claimCalls |-> 0,                     \* calls of clients.claim()
     waitUntil |-> "none"]                 \* the promise given to event.waitUntil

\* ToDelete without the test cacheName !== CACHE_NAME.
ToDeleteAll(cacheNames) == cacheNames

\* ToDelete with the test inverted: cacheName === CACHE_NAME.
ToDeleteInverted(cacheNames) == {n \in cacheNames : n = CACHE_NAME}

\* cacheNames.map(...): caches.delete is called for every name but CACHE_NAME.
ToDelete(cacheNames) == {n \in cacheNames : n # CACHE_NAME}

\* AllFulfilled that is content with one fulfilled promise (Promise.any).
AllFulfilledAny(deletes) == \E n \in Names : deletes[n] \in {"none", "done"}

\* Promise.all over the deletions is fulfilled when each is, and rejected as
\* soon as one is.
AllFulfilled(deletes) == \A n \in Names : deletes[n] \in {"none", "done"}
AnyRejected(deletes) == \E n \in Names : deletes[n] = "failed"

\* .then(() => sw.clients.claim()) runs when Promise.all is fulfilled; when it is
\* rejected the callback is skipped and the rejection reaches waitUntil.
AfterSweep(a) ==
    IF a.pc # "sweep" THEN a
    ELSE IF AnyRejected(a.deletes) THEN [a EXCEPT !.pc = "failed", !.waitUntil = "rejected"]
    ELSE IF AllFulfilled(a.deletes)
        THEN [a EXCEPT !.pc = "claiming", !.claimCalls = @ + 1]
    ELSE a

\* The activate event: event.waitUntil(caches.keys()...).
ActivateEvent ==
    /\ act.pc = "idle"
    /\ act' = [act EXCEPT !.pc = "keys", !.waitUntil = "pending",
                          !.startNames = {n \in Names : caches[n].exists},
                          !.inFlight =
                            {<<"fetch", h>> : h \in {g \in FetchIds :
                                fh[g].pc \in {"open", "match", "fetch", "fallback"}}}
                            \cup {<<"message", m>> : m \in {g \in MsgIds :
                                msg[g].pc \in {"open", "fetching", "store"}}}]
    /\ UNCHANGED <<caches, fh, msg>>

\* caches.keys() resolves; the deletions are issued.
KeysResolve ==
    /\ act.pc = "keys"
    /\ LET cacheNames == {n \in Names : caches[n].exists} IN
       act' = AfterSweep([act EXCEPT
                !.pc = "sweep",
                !.cacheNames = cacheNames,
                !.deletes = [n \in Names |->
                                IF n \in ToDelete(cacheNames) THEN "pending" ELSE "none"]])
    /\ UNCHANGED <<caches, fh, msg>>

\* One caches.delete resolves: the namespace is gone.
DeleteResolve(n) ==
    /\ act.deletes[n] = "pending"
    /\ caches' = [caches EXCEPT ![n] = AbsentCache]
    /\ act' = AfterSweep([act EXCEPT !.deletes[n] = "done"])
    /\ UNCHANGED <<fh, msg>>

\* One caches.delete rejects: the namespace stays.
DeleteReject(n) ==
    /\ act.deletes[n] = "pending"
    /\ act' = AfterSweep([act EXCEPT !.deletes[n] = "failed"])
    /\ UNCHANGED <<caches, fh, msg>>

\* clients.claim() resolves, and with it the promise given to waitUntil.
ClaimResolve ==
    /\ act.pc = "claiming"
    /\ act' = [act EXCEPT !.pc = "activated", !.waitUntil = "fulfilled"]
    /\ UNCHANGED <<caches, fh, msg>>

NextActivate ==
    \/ ActivateEvent
    \/ KeysResolve
    \/ \E n \in Names : DeleteResolve(n)
    \/ \E n \in Names : DeleteReject(n)
    \/ ClaimResolve

(***************************************************************************)
(* The message listener                                                    *)
(***************************************************************************)
\* event.data of the message events: the two commands, with the URL lists of
\* CACHE_URLS, and a message of another type. port: whether event.ports[0] is there.
UrlLists ==
    {<< >>, <<PathJs>>, <<PathJs, PathPng, PathHtml>>, <<PathPng, PathPng>>}

MessageData ==
    {[type |-> "SKIP_WAITING", urls |-> << >>, port |-> FALSE],
     [type |-> "OTHER", urls |-> << >>, port |-> FALSE],
     [type |-> "CACHE_URLS", urls |-> << >>, port |-> FALSE]}
    \cup {[type |-> "CACHE_URLS", urls |-> u, port |-> TRUE] : u \in UrlLists}

\* What the fetches of one addAll can settle to: every URL served with the same
\* body, or one URL failing (a rejection, or a response that is not ok).
AddAllOutcomes(urls) ==
    {[i \in 1..Len(urls) |-> NetOk(b)] : b \in Bodies}
    \cup {[i \in 1..Len(urls) |-> IF i = j THEN bad ELSE NetOk("1")] :
                j \in 1..Len(urls), bad \in {NetNotFound, NetError}}

IdleMessage ==
    [pc |-> "idle",
     data |-> [type |-> "OTHER", urls |-> << >>, port |-> FALSE],
     outs |-> << >>,            \* what the fetches of addAll settled to
     fetches |-> 0,             \* calls of fetch() made by addAll
     skipWaiting |-> 0,         \* calls of self.skipWaiting()
     replies |-> << >>,         \* what was posted on event.ports[0]
     stored |-> FALSE,          \* addAll wrote its batch
     prevDone |-> {},           \* the message handlers that had finished on arrival
     after |-> EmptyEntries]    \* the entries of the namespace when the handler finished

Success == [success |-> TRUE, error |-> ""]
Failure(message) == [success |-> FALSE, error |-> message]

\* event.ports[0].postMessage(reply); without a port the call throws and
\* nothing is posted.
PostMessage(m, reply) == IF m.data.port THEN [m EXCEPT !.replies = Append(@, reply)] ELSE m

\* cache.addAll rejects a batch that names a request twice.
HasDuplicates(urls) == \E i, j \in 1..Len(urls) : i # j /\ urls[i] = urls[j]

\* The message event.
MessageEvent(m, data) ==
    /\ msg[m].pc = "idle"
    /\ \A g \in MsgIds : g < m => msg[g].pc # "idle"
    /\ msg' = [msg EXCEPT ![m] =
                [@ EXCEPT !.data = data,
                          !.prevDone = {g \in MsgIds : msg[g].pc = "done"},
                          !.skipWaiting = IF data.type = "SKIP_WAITING" THEN @ + 1 ELSE @,
                          !.pc = IF data.type = "CACHE_URLS" THEN "open" ELSE "done"]]
    /\ UNCHANGED <<caches, fh, act>>

\* caches.open(CACHE_NAME) resolves and cache.addAll(urlsToCache) starts one
\* fetch per URL.
MsgOpenResolve(m) ==
    /\ msg[m].pc = "open"
    /\ caches' = [caches EXCEPT ![OpenName].exists = TRUE]
    /\ msg' = [msg EXCEPT ![m] = [@ EXCEPT !.pc = "fetching",
                                           !.fetches = @ + Len(msg[m].data.urls)]]
    /\ UNCHANGED <<fh, act>>

\* AddAllFetched that does not look at the outcome of the fetches.
AddAllFetchedLenient(m) ==
    /\ msg[m].pc = "fetching"
    /\ \E outs \in AddAllOutcomes(msg[m].data.urls) :
            msg' = [msg EXCEPT ![m] = [@ EXCEPT !.outs = outs, !.pc = "store"]]
    /\ UNCHANGED <<caches, fh, act>>

\* AddAllFetched that keeps the responses that did arrive when one fetch fails.
AddAllFetchedPartial(m) ==
    /\ msg[m].pc = "fetching"
    /\ \E outs \in AddAllOutcomes(msg[m].data.urls) :
        LET urls == msg[m].data.urls
            kept == [k \in Paths |->
                        IF \E i \in 1..Len(urls) : urls[i] = k /\ Ok(outs[i])
                            THEN outs[CHOOSE i \in 1..Len(urls) : urls[i] = k /\ Ok(outs[i])]
                            ELSE caches[OpenName].entries[k]]
        IN IF \E i \in 1..Len(outs) : ~Ok(outs[i])
             THEN /\ caches' = [caches EXCEPT ![OpenName].entries = kept]
                  /\ msg' = [msg EXCEPT ![m] =
                        PostMessage([@ EXCEPT !.outs = outs, !.pc = "done", !.after = kept],
                                    Failure("Request failed"))]
             ELSE /\ caches' = caches
                  /\ msg' = [msg EXCEPT ![m] = [@ EXCEPT !.outs = outs, !.pc = "store"]]
    /\ UNCHANGED <<fh, act>>

\* The fetches of addAll settle. A rejection or a response that is not ok
\* rejects addAll, and the .catch callback posts the failure.
AddAllFetched(m) ==
    /\ msg[m].pc = "fetching"
    /\ \E outs \in AddAllOutcomes(msg[m].data.urls) :
            msg' = [msg EXCEPT ![m] =
                IF \E i \in 1..Len(outs) : ~Ok(outs[i])
                    THEN PostMessage([@ EXCEPT !.outs = outs, !.pc = "done",
                                                !.after = caches[OpenName].entries],
                                     Failure("Request failed"))
                    ELSE [@ EXCEPT !.outs = outs, !.pc = "store"]]
    /\ UNCHANGED <<caches, fh, act>>

\* BatchEntries that removes the entry it finds and then adds only where it
\* had found none.
BatchEntriesReplaceBug(entries, urls, outs) ==
    [k \in Paths |->
        IF \E i \in 1..Len(urls) : urls[i] = k
            THEN IF Truthy(entries[k]) THEN None
                 ELSE outs[CHOOSE i \in 1..Len(urls) : urls[i] = k]
            ELSE entries[k]]

\* The entries addAll writes: every URL of the list gets its response.
BatchEntries(entries, urls, outs) ==
    [k \in Paths |->
        IF \E i \in 1..Len(urls) : urls[i] = k
            THEN outs[CHOOSE i \in 1..Len(urls) : urls[i] = k]
            ELSE entries[k]]

\* addAll stores the batch in one operation and resolves; the .then callback
\* posts the success. A batch with a duplicate request is rejected instead.
AddAllStore(m) ==
    /\ msg[m].pc = "store"
    /\ IF HasDuplicates(msg[m].data.urls)
          THEN /\ msg' = [msg EXCEPT ![m] =
                            PostMessage([@ EXCEPT !.pc = "done",
                                                  !.after = caches[OpenName].entries],
                                        Failure("duplicate requests"))]
               /\ UNCHANGED caches
          ELSE /\ caches' = [caches EXCEPT ![OpenName].entries =
                                BatchEntries(@, msg[m].data.urls, msg[m].outs)]
               /\ msg' = [msg EXCEPT ![m] =
                            PostMessage([@ EXCEPT !.pc = "done", !.stored = TRUE,
                                                  !.after = caches'[OpenName].entries],
                                        Success)]
    /\ UNCHANGED <<fh, act>>

\* The store rejects the batch (quota exceeded): addAll rejects, nothing is written.
AddAllStoreReject(m) ==
    /\ msg[m].pc = "store"
    /\ msg' = [msg EXCEPT ![m] =
                PostMessage([@ EXCEPT !.pc = "done", !.after = caches[OpenName].entries],
                            Failure("Quota exceeded"))]
    /\ UNCHANGED <<caches, fh, act>>

NextMessageOf(ids) ==
    \/ \E m \in ids, data \in MessageData : MessageEvent(m, data)
    \/ \E m \in ids : MsgOpenResolve(m)
    \/ \E m \in ids : AddAllFetched(m)
    \/ \E m \in ids : AddAllStore(m)
    \/ \E m \in ids : AddAllStoreReject(m)

NextMessage == NextMessageOf(MsgIds)

(***************************************************************************)
(* Initial state: the worker script has been evaluated. The cache storage  *)
(* holds what earlier runs left: stale namespaces, and possibly the        *)
(* current one, empty or with entries.                                     *)
(***************************************************************************)
StoredCache == [exists |-> TRUE, entries |-> [k \in Paths |-> NetOk("1")]]

Init ==
    /\ caches \in {c \in [Names -> {AbsentCache, EmptyCache, StoredCache}] :
                    \A n \in StaleNames : c[n] # StoredCache}
    /\ fh = [h \in FetchIds |-> IdleFetch]
    /\ act = IdleActivate
    /\ msg = [m \in MsgIds |-> IdleMessage]

\* The fetch events alone; the stale namespaces play no part.
InitQuiet == Init /\ \A n \in StaleNames : caches[n] = EmptyCache

SpecFetch == InitQuiet /\ [][NextFetch]_vars

\* The activate event, with one fetch event and one message event around it.
Next == NextFetchOf({1}) \/ NextActivate \/ NextMessageOf({1})

Spec == Init /\ [][Next]_vars

\* One fetch event, its request drawn from every class of pathname and header.
NextClassify ==
    \/ \E request \in ClassifyRequests : FetchEvent(1, request)
    \/ OpenResolve(1)
    \/ MatchResolve(1)
    \/ \E out \in NetOutcomes : FetchSettle(1, out)
    \/ FallbackResolve(1)
    \/ PutCommit(1)
    \/ PutReject(1)

SpecClassify == InitQuiet /\ [][NextClassify]_vars

\* The message events alone.
SpecMessage == InitQuiet /\ [][NextMessage]_vars

(***************************************************************************)
(* Properties                                                              *)
(***************************************************************************)
Executors == {"cacheFirst", "networkFirst", "staleWhileRevalidate"}

\* The function handleRequest calls for a strategy.
ExecutorOf(strategy) ==
    CASE strategy = "cache-first" -> "cacheFirst"
      [] strategy = "network-first" -> "networkFirst"
      [] strategy = "stale-while-revalidate" -> "staleWhileRevalidate"
      [] OTHER -> "fetch"

\* The network outcome of a handler was a rejection or a response that is not ok.
FailedOrNotOk(f) ==
    f.networkResponse.kind \in {"error", "response"} /\ ~Ok(f.networkResponse)

AllOk(outs) == \A i \in 1..Len(outs) : Ok(outs[i])

\* C1: under each of the three strategies, a handler whose fetch was rejected
\* answers with a response: the cached entry, or a 503 with the offline body;
\* with nothing cached it is the 503.
C1_OfflineWellFormed ==
    \A h \in FetchIds :
        (fh[h].pc = "done" /\ fh[h].executor \in Executors
            /\ fh[h].networkResponse = NetError) =>
            /\ fh[h].response.kind = "response"
            /\ \/ Truthy(fh[h].cachedResponse) /\ fh[h].response = fh[h].cachedResponse
               \/ fh[h].response.status = 503 /\ fh[h].response.body = OfflineBody
            /\ ~Truthy(fh[h].cachedResponse) => fh[h].response.status = 503

\* C2: cacheFirst that finds an entry answers with it, calls fetch() not once
\* and issues no cache.put.
C2_CacheFirstHit ==
    \A h \in FetchIds :
        (fh[h].executor = "cacheFirst" /\ Truthy(fh[h].cachedResponse)) =>
            /\ fh[h].pc = "done"
            /\ fh[h].response = fh[h].cachedResponse
            /\ fh[h].netCalls = 0
            /\ fh[h].put = "none"

C2_Witness ==
    \E h \in FetchIds :
        /\ fh[h].executor = "cacheFirst"
        /\ Truthy(fh[h].cachedResponse)
        /\ fh[h].pc = "done"

\* C3: an executor that received an ok network response issues a cache.put of
\* it; the step that completes the put leaves the namespace holding that
\* snapshot under the request's key; and while no later write replaces it, the
\* entry of a key written by completed puts is the snapshot of one of them.
C3_OkResponseStored ==
    /\ [](\A h \in FetchIds :
            (fh[h].executor \in Executors /\ Ok(fh[h].networkResponse)) =>
                fh[h].put \in {"pending", "committed", "failed"})
    /\ [][\A h \in FetchIds :
            (fh[h].put = "pending" /\ fh'[h].put = "committed") =>
                /\ caches'[CACHE_NAME].exists
                /\ caches'[CACHE_NAME].entries[Key(fh[h].request)] = fh[h].networkResponse]_vars
    /\ [](\A h \in FetchIds :
            fh[h].put = "committed" =>
                \E g \in FetchIds :
                    /\ Key(fh[g].request) = Key(fh[h].request)
                    /\ fh[g].put = "committed"
                    /\ CurrentEntry(Key(fh[h].request)) = fh[g].networkResponse)

\* staleWhileRevalidate answered with the old entry, its background write is
\* done, and the namespace holds the new snapshot.
C3_Witness ==
    \E h \in FetchIds :
        /\ fh[h].executor = "staleWhileRevalidate"
        /\ Truthy(fh[h].cachedResponse)
        /\ fh[h].put = "committed"
        /\ fh[h].response = fh[h].cachedResponse
        /\ CurrentEntry(Key(fh[h].request)) = fh[h].networkResponse
        /\ fh[h].networkResponse # fh[h].cachedResponse

\* C4 as stated: after a rejected fetch or a response that is not ok the
\* executor has written nothing, and a response that is not ok is what the
\* caller received.
C4_Original ==
    \A h \in FetchIds :
        (fh[h].pc = "done" /\ fh[h].executor \in Executors /\ FailedOrNotOk(fh[h])) =>
            /\ fh[h].put = "none"
            /\ fh[h].networkResponse.kind = "response" =>
                    fh[h].response = fh[h].networkResponse

\* C4, amended: after a rejected fetch or a response that is not ok the executor
\* issues no cache.put, and every change of an entry of the namespace is the
\* completion of the put of an ok response; a response that is not ok is what
\* the caller receives, except in staleWhileRevalidate with an entry cached,
\* where the caller receives the cached entry.
C4_NotOkNeverWritten ==
    /\ [](\A h \in FetchIds :
            (fh[h].executor \in Executors /\ FailedOrNotOk(fh[h])) =>
                /\ fh[h].put = "none"
                /\ (fh[h].pc = "done" /\ fh[h].networkResponse.kind = "response") =>
                        fh[h].response =
                            IF fh[h].executor = "staleWhileRevalidate"
                                    /\ Truthy(fh[h].cachedResponse)
                                THEN fh[h].cachedResponse
                                ELSE fh[h].networkResponse)
    /\ [][\A k \in Paths :
            caches'[CACHE_NAME].entries[k] # caches[CACHE_NAME].entries[k] =>
                \E h \in FetchIds :
                    /\ Key(fh[h].request) = k
                    /\ fh[h].put = "pending" /\ fh'[h].put = "committed"
                    /\ Ok(fh[h].networkResponse)
                    /\ caches'[CACHE_NAME].entries[k] = fh[h].networkResponse]_vars

\* A handler got a 404 for a key that has an entry, returned the 404, and the
\* entry is as it was.
C4_Witness ==
    \E h \in FetchIds :
        /\ fh[h].pc = "done"
        /\ fh[h].networkResponse = NetNotFound
        /\ fh[h].response = NetNotFound
        /\ Truthy(fh[h].before)
        /\ CurrentEntry(Key(fh[h].request)) = fh[h].before

\* The handlers and the message handlers that have had caches.open resolve.
FetchOpened == \E h \in FetchIds : fh[h].pc \in {"match", "fetch", "fallback", "done"}
                                    /\ fh[h].executor \in Executors
MessageOpened == \E m \in MsgIds : msg[m].pc \in {"fetching", "store", "done"}
                                    /\ msg[m].data.type = "CACHE_URLS"
NoOtherEvent == (\A h \in FetchIds : fh[h].pc = "idle") /\ (\A m \in MsgIds : msg[m].pc = "idle")

\* C5 as stated: the activate handler, run to completion on a storage with a
\* stale namespace and without the current one, and with no fetch or message
\* event, leaves the stale namespaces absent and the current one present.
C5_Original ==
    (act.pc = "activated" /\ act.startNames \cap StaleNames # {}
        /\ CACHE_NAME \notin act.startNames /\ NoOtherEvent) =>
        /\ \A n \in StaleNames : ~caches[n].exists
        /\ caches[CACHE_NAME].exists

\* C5, amended: when the activate handler has completed, every stale namespace
\* is absent, and the current namespace is present exactly if it was there when
\* the event arrived or a fetch or CACHE_URLS handler has opened it since.
C5_ActivationRoundTrip ==
    act.pc = "activated" =>
        /\ \A n \in StaleNames : ~caches[n].exists
        /\ caches[CACHE_NAME].exists <=>
                (CACHE_NAME \in act.startNames \/ FetchOpened \/ MessageOpened)

C5_Witness ==
    /\ act.pc = "activated"
    /\ act.startNames \cap StaleNames # {}
    /\ CACHE_NAME \notin act.startNames
    /\ NoOtherEvent
    /\ \A n \in Names : ~caches[n].exists

\* C6: when a deletion of the sweep has been rejected and none is pending, the
\* other deletions have taken effect, clients.claim() has been called and the
\* promise given to waitUntil is not rejected.
C6_DeleteFailureTolerated ==
    (AnyRejected(act.deletes) /\ \A n \in Names : act.deletes[n] # "pending") =>
        /\ \A n \in Names : act.deletes[n] = "done" => ~caches[n].exists
        /\ act.claimCalls = 1
        /\ act.waitUntil \in {"pending", "fulfilled"}

\* C7: a fetch event of another origin is left alone: no strategy, no executor,
\* no caches.open, fetch(), cache.match or cache.put, no respondWith; a fetch
\* event of the worker's origin has respondWith called once, with the executor
\* of the strategy getStrategyForRequest gives for the request.
C7_OriginGate ==
    \A h \in FetchIds :
        fh[h].pc # "idle" =>
            IF fh[h].request.origin # LocationOrigin
                THEN /\ fh[h].pc = "passthrough"
                     /\ fh[h].respondWith = 0
                     /\ fh[h].strategy = "" /\ fh[h].executor = ""
                     /\ fh[h].opens = 0 /\ fh[h].netCalls = 0 /\ fh[h].reads = 0
                     /\ fh[h].put = "none"
                     /\ fh[h].response = None
                ELSE /\ fh[h].pc # "passthrough"
                     /\ fh[h].respondWith = 1
                     /\ fh[h].strategy = getStrategyForRequest(fh[h].request)
                     /\ fh[h].executor = ExecutorOf(fh[h].strategy)
                     /\ fh[h].executor \in Executors

C7_Witness ==
    \E h, g \in FetchIds :
        /\ fh[h].pc = "passthrough"
        /\ fh[g].pc = "done" /\ fh[g].respondWith = 1 /\ Truthy(fh[g].response)

\* C8: once staleWhileRevalidate has found an entry, the caller has that entry
\* as its response, while the background fetch is pending and after it has
\* settled either way, and whatever the namespace holds by then; a response
\* handed over never changes.
C8_StaleAnsweredAtOnce ==
    /\ [](\A h \in FetchIds :
            (fh[h].executor = "staleWhileRevalidate" /\ Truthy(fh[h].cachedResponse)) =>
                /\ fh[h].pc \in {"fetch", "done"}
                /\ fh[h].response = fh[h].cachedResponse)
    /\ [][\A h \in FetchIds :
            Truthy(fh[h].response) => fh'[h].response = fh[h].response]_vars

\* The caller has the old entry, the background write is done and the
\* namespace holds something else.
C8_Witness ==
    \E h \in FetchIds :
        /\ fh[h].executor = "staleWhileRevalidate"
        /\ Truthy(fh[h].cachedResponse)
        /\ fh[h].response = fh[h].cachedResponse
        /\ fh[h].put = "committed"
        /\ CurrentEntry(Key(fh[h].request)) # fh[h].response

\* C9: a CACHE_URLS command with a reply port gets no reply before its handler
\* has finished and exactly one then: success exactly if every URL of the list
\* was fetched with an ok response and the batch was stored, a failure with a
\* non-empty error otherwise; each URL is fetched at most once.
C9_ExactlyOneReply ==
    \A m \in MsgIds :
        (msg[m].data.type = "CACHE_URLS" /\ msg[m].data.port) =>
            LET urls == msg[m].data.urls
                outs == msg[m].outs
                replies == msg[m].replies IN
            /\ msg[m].pc # "done" => replies = << >>
            /\ msg[m].pc = "done" =>
                /\ Len(replies) = 1
                /\ replies[1].success <=>
                        /\ Len(outs) = Len(urls)
                        /\ AllOk(outs)
                        /\ msg[m].stored
                        /\ \A i \in 1..Len(urls) : msg[m].after[urls[i]] = outs[i]
                /\ replies[1].success => replies[1].error = ""
                /\ ~replies[1].success => replies[1].error # ""
            /\ msg[m].fetches = IF msg[m].pc \in {"idle", "open"} THEN 0 ELSE Len(urls)

\* One of three URLs failed and the reply is a failure.
C9_Witness ==
    \E m \in MsgIds :
        /\ msg[m].pc = "done"
        /\ Len(msg[m].data.urls) = 3
        /\ Cardinality({i \in 1..Len(msg[m].outs) : ~Ok(msg[m].outs[i])}) = 1
        /\ msg[m].replies = <<Failure("Request failed")>>

\* The second of two commands ran after the first, with the same list and the
\* same ok responses, the store rejected neither batch for lack of room, and no
\* third command wrote in between.
SameCommandTwice(m1, m2) ==
    /\ m1 # m2
    /\ msg[m1].data.type = "CACHE_URLS" /\ msg[m2].data.type = "CACHE_URLS"
    /\ msg[m1].pc = "done" /\ msg[m2].pc = "done"
    /\ m1 \in msg[m2].prevDone
    /\ msg[m1].data.urls = msg[m2].data.urls
    /\ msg[m1].outs = msg[m2].outs
    /\ Len(msg[m1].outs) = Len(msg[m1].data.urls)
    /\ AllOk(msg[m1].outs)
    /\ msg[m1].stored \/ HasDuplicates(msg[m1].data.urls)
    /\ msg[m2].stored \/ HasDuplicates(msg[m2].data.urls)
    /\ \A g \in MsgIds \ {m1, m2} :
            msg[g].stored => (g \in msg[m1].prevDone \/ m2 \in msg[g].prevDone)

C11_NetworkFirstFallback ==
    /\ [](\A h \in FetchIds :
            (fh[h].executor = "networkFirst" /\ fh[h].networkResponse = NetError) =>
                /\ fh[h].put = "none"
                /\ fh[h].pc \in {"fallback", "done"}
                /\ fh[h].reads = 1
                /\ fh[h].pc = "done" =>
                        fh[h].response =
                            IF Truthy(fh[h].cachedResponse)
                                THEN fh[h].cachedResponse
                                ELSE Resp(503, OfflineBody, "text/html"))
    /\ [][\A h \in FetchIds :
            (fh[h].pc = "fallback" /\ fh'[h].pc = "done") =>
                /\ caches' = caches
                /\ fh'[h].cachedResponse = CurrentEntry(Key(fh[h].request))]_vars

\* networkFirst answered offline with the html 503, and the namespace has no
\* entry for the request.
C11_Witness ==
    \E h \in FetchIds :
        /\ fh[h].executor = "networkFirst"
        /\ fh[h].pc = "done"
        /\ fh[h].networkResponse = NetError
        /\ fh[h].response = Resp(503, OfflineBody, "text/html")
        /\ ~Truthy(CurrentEntry(Key(fh[h].request)))

\* The characters after the last dot of a pathname; the whole pathname when it
\* has no dot.
FinalExtension(p) ==
    LET dots == {i \in 1..Len(p) : p[i] = "."}
        last == IF dots = {} THEN 0 ELSE CHOOSE i \in dots : \A j \in dots : j <= i
    IN SubSeq(p, last + 1, Len(p))

NamesHtml(accept) == accept.present /\ "text/html" \in {accept.value[i] : i \in 1..Len(accept.value)}

\* The strategy the five rules give, in their order.
RuleStrategy(request) ==
    LET ext == FinalExtension(request.pathname) IN
    CASE NamesHtml(request.accept) \/ ext = <<"h", "t", "m", "l">> -> "network-first"
      [] OTHER ->
    CASE ext = <<"c", "s", "s">> -> "stale-while-revalidate"
      [] ext = <<"j", "s">> -> "stale-while-revalidate"
      [] ext \in {<<"j", "p", "g">>, <<"j", "p", "e", "g">>, <<"p", "n", "g">>,
                  <<"g", "i", "f">>, <<"w", "e", "b", "p">>, <<"s", "v", "g">>} -> "cache-first"
      [] OTHER -> "network-first"

\* C12: for every request the fetch listener classifies, the strategy is the
\* one the five rules give in their order, it is one of the three identifiers,
\* the executor called is one of the three (never the plain fetch of the
\* default branch), and the classifying step changes nothing in the storage.
C12_Classifier ==
    /\ [](\A h \in FetchIds :
            (fh[h].pc # "idle" /\ fh[h].request.origin = LocationOrigin) =>
                /\ fh[h].strategy = RuleStrategy(fh[h].request)
                /\ fh[h].strategy \in {"cache-first", "network-first", "stale-while-revalidate"}
                /\ fh[h].executor \in Executors)
    /\ [][\A h \in FetchIds :
            (fh[h].pc = "idle" /\ fh'[h].pc # "idle") => caches' = caches]_vars

\* A script asked for with an html Accept header went to network-first.
C12_Witness ==
    \E h \in FetchIds :
        /\ fh[h].pc = "done"
        /\ fh[h].request.pathname = PathJs
        /\ fh[h].request.accept = AcceptHtml
        /\ fh[h].strategy = "network-first"
        /\ fh[h].executor = "networkFirst"

\* The handlers of the three executors that got an ok response for a key, and
\* those among them whose put is done.
OkFetchers(k) ==
    {h \in FetchIds : fh[h].executor \in Executors /\ Key(fh[h].request) = k
                        /\ Ok(fh[h].networkResponse)}
Writers(k) == {h \in OkFetchers(k) : fh[h].put = "committed"}

\* Every handler that was started has finished, and no put is pending.
AllQuiet ==
    \A h \in FetchIds : fh[h].pc \in {"idle", "passthrough", "done"} /\ fh[h].put # "pending"

\* C13 as stated: once the handlers of a resource and their writes have
\* finished (no write having failed), the entry of the resource is the
\* response of the ok fetch that settled last.
C13_Original ==
    \A k \in Paths :
        (AllQuiet /\ Cardinality(OkFetchers(k)) >= 2 /\ Writers(k) = OkFetchers(k)) =>
            \E h \in OkFetchers(k) :
                /\ \A g \in OkFetchers(k) : fh[g].fetchOrder <= fh[h].fetchOrder
                /\ CurrentEntry(k) = fh[h].networkResponse

\* C13, amended: whenever puts for a resource have completed, its entry is
\* the whole snapshot of the put that completed last, whatever the order in
\* which the fetches settled.
C13_LastWriteWins ==
    \A k \in Paths :
        Writers(k) # {} =>
            \E h \in Writers(k) :
                /\ \A g \in Writers(k) : fh[g].putOrder <= fh[h].putOrder
                /\ CurrentEntry(k) = fh[h].networkResponse

\* Two handlers of different strategies raced for one resource: the fetch of
\* the one settled first, its put completed last, and its snapshot is stored.
C13_Witness ==
    \E h, g \in FetchIds :
        /\ AllQuiet
        /\ Key(fh[h].request) = Key(fh[g].request)
        /\ fh[h].executor # fh[g].executor
        /\ {h, g} \subseteq Writers(Key(fh[h].request))
        /\ fh[h].fetchOrder < fh[g].fetchOrder
        /\ fh[h].putOrder > fh[g].putOrder
        /\ fh[h].networkResponse # fh[g].networkResponse
        /\ CurrentEntry(Key(fh[h].request)) = fh[h].networkResponse

\* C14: once the activate handler has completed, no namespace but the current
\* one exists, and none comes back, whatever fetch and CACHE_URLS handlers do
\* before, during and after the sweep.
C14_StaleStayDeleted ==
    /\ [](act.pc = "activated" => \A n \in Names : n # CACHE_NAME => ~caches[n].exists)
    /\ [][act.pc = "activated" =>
            \A n \in Names : n # CACHE_NAME => ~caches'[n].exists]_vars

\* Activation has completed on a storage that held both stale namespaces,
\* while a fetch handler and a CACHE_URLS handler that were under way when the
\* event arrived have since written to the current namespace.
C14_Witness ==
    /\ act.pc = "activated"
    /\ StaleNames \subseteq act.startNames
    /\ act.inFlight = {<<"fetch", 1>>, <<"message", 1>>}
    /\ fh[1].put = "committed"
    /\ msg[1].stored
    /\ \A n \in StaleNames : ~caches[n].exists

\* C15: clients.claim() is called at most once, and only when caches.delete has
\* resolved for every enumerated namespace other than the current one; no
\* deletion is ever issued for the current namespace, and no step of the
\* activate handler changes it.
C15_ClaimAfterSweep ==
    /\ [](/\ act.claimCalls <= 1
          /\ act.deletes[CACHE_NAME] = "none"
          /\ act.claimCalls = 1 =>
                /\ \A n \in ToDelete(act.cacheNames) : act.deletes[n] = "done"
                /\ \A n \in Names : act.deletes[n] # "pending")
    /\ [][act' # act => caches'[CACHE_NAME] = caches[CACHE_NAME]]_vars

\* claim() was called after both stale namespaces were deleted, and the current
\* namespace, which was enumerated too, still has its entries.
C15_Witness ==
    /\ act.claimCalls = 1
    /\ act.cacheNames = Names
    /\ \A n \in StaleNames : act.deletes[n] = "done" /\ ~caches[n].exists
    /\ caches[CACHE_NAME] = StoredCache

\* C16: networkFirst calls fetch() once, before any cache.match; when the fetch
\* gave a response, ok or not, that response is the answer and the cache is
\* never looked into; cache.match is called only after the fetch was rejected.
C16_NetworkFirstOrder ==
    \A h \in FetchIds :
        fh[h].executor = "networkFirst" =>
            /\ fh[h].pc = "open" => (fh[h].netCalls = 0 /\ fh[h].reads = 0)
            /\ fh[h].pc # "open" => fh[h].netCalls = 1
            /\ fh[h].pc = "fetch" => fh[h].reads = 0
            /\ fh[h].reads > 0 => (fh[h].reads = 1 /\ fh[h].networkResponse = NetError)
            /\ fh[h].networkResponse.kind = "response" =>
                    /\ fh[h].pc = "done"
                    /\ fh[h].response = fh[h].networkResponse
                    /\ fh[h].reads = 0

\* networkFirst answered with the live response although the namespace held
\* another entry for the request.
C16_Witness ==
    \E h \in FetchIds :
        /\ fh[h].executor = "networkFirst"
        /\ fh[h].pc = "done"
        /\ Truthy(fh[h].before)
        /\ fh[h].networkResponse.kind = "response"
        /\ fh[h].networkResponse # fh[h].before
        /\ fh[h].response = fh[h].networkResponse

\* C17: staleWhileRevalidate calls fetch() exactly once, at the step after
\* cache.match, with or without an entry cached; with none cached, and the
\* fetch giving a response (ok or not), that response is the answer.
C17_OneBackgroundFetch ==
    \A h \in FetchIds :
        fh[h].executor = "staleWhileRevalidate" =>
            /\ fh[h].pc \in {"open", "match"} => fh[h].netCalls = 0
            /\ fh[h].pc \in {"fetch", "done"} => fh[h].netCalls = 1
            /\ fh[h].pc \in {"open", "match", "fetch", "done"}
            /\ (fh[h].pc = "done" /\ ~Truthy(fh[h].cachedResponse)
                    /\ fh[h].networkResponse.kind = "response") =>
                    fh[h].response = fh[h].networkResponse

\* staleWhileRevalidate found an entry, has answered, and its one fetch is
\* under way.
C17_Witness ==
    \E h \in FetchIds :
        /\ fh[h].executor = "staleWhileRevalidate"
        /\ Truthy(fh[h].cachedResponse)
        /\ fh[h].pc = "fetch"
        /\ fh[h].netCalls = 1
        /\ fh[h].response = fh[h].cachedResponse

\* Every fetch of the command's addAll gave an ok response.
FetchedAll(m) == Len(msg[m].outs) = Len(msg[m].data.urls) /\ AllOk(msg[m].outs)

\* C18 as stated: a CACHE_URLS command whose URLs were all fetched with an ok
\* response leaves the namespace with an entry for each of them.
C18_Original ==
    \A m \in MsgIds :
        (msg[m].data.type = "CACHE_URLS" /\ msg[m].pc = "done" /\ FetchedAll(m)) =>
            \A i \in 1..Len(msg[m].data.urls) : Truthy(msg[m].after[msg[m].data.urls[i]])

\* C18, amended: a CACHE_URLS command writes in one step or not at all. It
\* writes only when every URL was fetched with an ok response and addAll
\* resolves, and then each listed URL holds its response and no other entry
\* changes; when a fetch fails, or addAll rejects for a duplicate URL or a
\* store failure, no step of the command changes an entry.
C18_AllOrNothing ==
    /\ [](\A m \in MsgIds :
            /\ msg[m].stored =>
                /\ msg[m].pc = "done" /\ FetchedAll(m)
                /\ \A i \in 1..Len(msg[m].data.urls) :
                        msg[m].after[msg[m].data.urls[i]] = msg[m].outs[i]
            /\ (msg[m].pc = "done" /\ msg[m].data.type = "CACHE_URLS" /\ ~FetchedAll(m)) =>
                    ~msg[m].stored)
    /\ [][\A m \in MsgIds :
            msg'[m] # msg[m] =>
                IF msg'[m].stored /\ ~msg[m].stored
                    THEN \A k \in Paths :
                            caches'[CACHE_NAME].entries[k] =
                                IF \E i \in 1..Len(msg[m].data.urls) : msg[m].data.urls[i] = k
                                    THEN msg[m].outs[CHOOSE i \in 1..Len(msg[m].data.urls) :
                                                        msg[m].data.urls[i] = k]
                                    ELSE caches[CACHE_NAME].entries[k]
                    ELSE caches'[CACHE_NAME].entries = caches[CACHE_NAME].entries]_vars

\* One of three URLs failed, and the namespace, empty before, is empty after.
C18_Witness ==
    \E m \in MsgIds :
        /\ msg[m].pc = "done"
        /\ Len(msg[m].data.urls) = 3
        /\ ~FetchedAll(m)
        /\ ~msg[m].stored
        /\ msg[m].after = EmptyEntries
        /\ caches[CACHE_NAME] = EmptyCache

\* C19: the cache.put of an ok network response is not awaited. Whatever state
\* the write is in (pending, failed, committed), the caller of an executor gets
\* the response the executor returns for that network response; the step that
\* settles the write changes no response, and a write that fails changes
\* neither the cache nor any other handler.
C19_WriteNotAwaited ==
    /\ [](\A h \in FetchIds :
            (fh[h].executor \in Executors /\ fh[h].put # "none") =>
                /\ Ok(fh[h].networkResponse)
                /\ fh[h].pc = "done"
                /\ fh[h].response =
                        IF fh[h].executor = "staleWhileRevalidate"
                            THEN SwrResult(fh[h].cachedResponse, fh[h].networkResponse)
                            ELSE fh[h].networkResponse)
    /\ [][\A h \in FetchIds :
            (fh[h].put = "pending" /\ fh'[h].put # "pending") =>
                /\ fh'[h].response = fh[h].response
                /\ fh'[h].pc = fh[h].pc
                /\ \A g \in FetchIds \ {h} : fh'[g] = fh[g]
                /\ msg' = msg /\ act' = act
                /\ fh'[h].put = "failed" => caches' = caches]_vars

\* A cacheFirst handler whose write failed answered with the network response,
\* while another handler is still in flight.
C19_Witness ==
    \E h \in FetchIds, g \in FetchIds :
        /\ h # g
        /\ fh[h].executor = "cacheFirst"
        /\ fh[h].put = "failed"
        /\ fh[h].response = fh[h].networkResponse
        /\ Ok(fh[h].response)
        /\ fh[g].pc \notin {"idle", "done"}

\* C20: a step of a fetch handler or of the message handler leaves every
\* namespace but CACHE_NAME as it was and deletes no namespace; CACHE_NAME is
\* the only namespace such a step creates or writes; a namespace ceases to
\* exist only in a step of the activate handler, which never deletes CACHE_NAME.
C20_NamespaceOwnership ==
    /\ [][(fh' # fh \/ msg' # msg) =>
            /\ \A n \in Names \ {CACHE_NAME} : caches'[n] = caches[n]
            /\ \A n \in Names : caches[n].exists => caches'[n].exists]_vars
    /\ [][\A n \in Names :
            (caches[n].exists /\ ~caches'[n].exists) =>
                /\ act' # act /\ fh' = fh /\ msg' = msg
                /\ n # CACHE_NAME]_vars

\* A fetch handler wrote its snapshot, a CACHE_URLS command stored its batch,
\* and an activation removed an earlier version's namespace meanwhile.
C20_Witness ==
    /\ \E h \in FetchIds : fh[h].put = "committed"
    /\ \E m \in MsgIds : msg[m].stored
    /\ act.pc = "activated"
    /\ \E n \in act.startNames : n # CACHE_NAME /\ ~caches[n].exists
    /\ caches[CACHE_NAME].exists

====
